---- MODULE Spec2Model ----
(***************************************************************************)
(* GitReportTool: commit extraction, diff classification and aggregation.  *)
(*                                                                         *)
(* JavaScript strings that the program takes apart (git output, paths,     *)
(* extensions, object keys) are sequences of one-character strings, so     *)
(* that split, trim, extname and toLowerCase are computed, not assumed.    *)
(* A JavaScript object used as a map is the sequence of its [k, v]         *)
(* properties in property order (integer-like keys first, ascending; then  *)
(* the other keys in insertion order), which is the order Object.entries   *)
(* returns.                                                                *)
(***************************************************************************)
EXTENDS Integers, Sequences, FiniteSets, TLC

(***************************************************************************)
(* Characters and string helpers                                           *)
(***************************************************************************)
TAB == "\t"
NL == "\n"

Digits == <<"0", "1", "2", "3", "4", "5", "6", "7", "8", "9">>

IsDigit(c) == \E i \in 1..Len(Digits) : Digits[i] = c

DigitVal(c) == (CHOOSE i \in 1..Len(Digits) : Digits[i] = c) - 1

IsSpace(c) == c \in {" ", TAB, NL, "\r"}

\* String.prototype.toLowerCase, one character
LowerChar(c) ==
  CASE c = "A" -> "a" [] c = "B" -> "b" [] c = "C" -> "c" [] c = "D" -> "d"
    [] c = "E" -> "e" [] c = "F" -> "f" [] c = "G" -> "g" [] c = "H" -> "h"
    [] c = "I" -> "i" [] c = "J" -> "j" [] c = "K" -> "k" [] c = "L" -> "l"
    [] c = "M" -> "m" [] c = "N" -> "n" [] c = "O" -> "o" [] c = "P" -> "p"
    [] c = "Q" -> "q" [] c = "R" -> "r" [] c = "S" -> "s" [] c = "T" -> "t"
    [] c = "U" -> "u" [] c = "V" -> "v" [] c = "W" -> "w" [] c = "X" -> "x"
    [] c = "Y" -> "y" [] c = "Z" -> "z"
    [] OTHER -> c

toLowerCase(s) == [i \in 1..Len(s) |-> LowerChar(s[i])]

\* String.prototype.trim
RECURSIVE TrimLeft(_)
TrimLeft(s) ==
  IF s = <<>> THEN <<>>
  ELSE IF IsSpace(Head(s)) THEN TrimLeft(Tail(s)) ELSE s

RECURSIVE TrimRight(_)
TrimRight(s) ==
  IF s = <<>> THEN <<>>
  ELSE IF IsSpace(s[Len(s)]) THEN TrimRight(SubSeq(s, 1, Len(s) - 1)) ELSE s

trim(s) == TrimRight(TrimLeft(s))

\* String.prototype.split(sep) for a one-character separator: always at
\* least one field, empty fields kept.
RECURSIVE SplitFrom(_, _, _, _)
SplitFrom(s, sep, i, cur) ==
  IF i > Len(s) THEN <<cur>>
  ELSE IF s[i] = sep THEN <<cur>> \o SplitFrom(s, sep, i + 1, <<>>)
  ELSE SplitFrom(s, sep, i + 1, Append(cur, s[i]))

split(s, sep) == SplitFrom(s, sep, 1, <<>>)

\* Array.prototype.join(sep)
RECURSIVE join(_, _)
join(parts, sep) ==
  IF parts = <<>> THEN <<>>
  ELSE IF Len(parts) = 1 THEN parts[1]
  ELSE parts[1] \o <<sep>> \o join(Tail(parts), sep)

\* path.extname (posix): the part of the last path component from its last
\* '.', or '' when there is no '.', when the '.' is the component's first
\* character, or when the component is '..'.
RECURSIVE StripSlashes(_)
StripSlashes(p) ==
  IF p # <<>> /\ p[Len(p)] = "/" THEN StripSlashes(SubSeq(p, 1, Len(p) - 1))
  ELSE p

BaseName(p) ==
  LET q == StripSlashes(p)
      slashes == {i \in 1..Len(q) : q[i] = "/"}
      from == IF slashes = {} THEN 1
              ELSE (CHOOSE i \in slashes : \A j \in slashes : j <= i) + 1
  IN SubSeq(q, from, Len(q))

extname(p) ==
  LET b == BaseName(p)
      dots == {i \in 1..Len(b) : b[i] = "."}
  IN IF dots = {} THEN <<>>
     ELSE LET d == CHOOSE i \in dots : \A j \in dots : j <= i
          IN IF d = 1 \/ b = <<".", ".">> THEN <<>>
             ELSE SubSeq(b, d, Len(b))

(***************************************************************************)
(* JavaScript objects used as maps                                         *)
(***************************************************************************)
\* numeric order of two digit strings without leading zeros
RECURSIVE DigitsLess(_, _)
DigitsLess(a, b) ==
  IF Len(a) # Len(b) THEN Len(a) < Len(b)
  ELSE IF a = <<>> THEN FALSE
  ELSE IF a[1] # b[1] THEN DigitVal(a[1]) < DigitVal(b[1])
  ELSE DigitsLess(Tail(a), Tail(b))

\* 2^32 - 2, the largest array index
MaxArrayIndex == <<"4", "2", "9", "4", "9", "6", "7", "2", "9", "4">>

\* A property key that is a canonical array index ("0", "7", "10"; not
\* "07", not "1.5"): such keys are enumerated first, in ascending order.
IsArrayIndex(k) ==
  /\ k # <<>>
  /\ \A i \in 1..Len(k) : IsDigit(k[i])
  /\ (Len(k) = 1 \/ k[1] # "0")
  /\ ~DigitsLess(MaxArrayIndex, k)

ObjHas(o, k) == \E i \in 1..Len(o) : o[i].k = k

ObjGet(o, k) == o[CHOOSE i \in 1..Len(o) : o[i].k = k].v

ObjKeys(o) == {o[i].k : i \in 1..Len(o)}

\* o[k] = v
ObjPut(o, k, v) ==
  IF ObjHas(o, k)
  THEN [i \in 1..Len(o) |-> IF o[i].k = k THEN [k |-> k, v |-> v] ELSE o[i]]
  ELSE IF IsArrayIndex(k)
  THEN LET before == {i \in 1..Len(o) :
                        IsArrayIndex(o[i].k) /\ DigitsLess(o[i].k, k)}
           n == Cardinality(before)
       IN SubSeq(o, 1, n) \o <<[k |-> k, v |-> v]>> \o SubSeq(o, n + 1, Len(o))
  ELSE Append(o, [k |-> k, v |-> v])

(***************************************************************************)
(* Change classifier                                                       *)
(***************************************************************************)
\* output.split('\n').filter(line => line.trim() !== '')
RECURSIVE NonBlank(_)
NonBlank(lines) ==
  IF lines = <<>> THEN <<>>
  ELSE IF trim(Head(lines)) # <<>> THEN <<Head(lines)>> \o NonBlank(Tail(lines))
  ELSE NonBlank(Tail(lines))

parseFirstCommitLine(line) ==
  LET parts == split(line, TAB)
      filePath == IF Len(parts) > 1 THEN parts[2] ELSE <<>>
  IN [path |-> filePath, type |-> "Added", status |-> <<"A">>]

parseFirstCommitFiles(output) ==
  LET lines == NonBlank(split(output, NL))
  IN [i \in 1..Len(lines) |-> parseFirstCommitLine(lines[i])]

changeTypeOf(status) ==
  LET c == IF status = <<>> THEN "" ELSE status[1]
  IN CASE c = "A" -> "Added"
       [] c = "M" -> "Modified"
       [] c = "D" -> "Deleted"
       [] c = "R" -> "Renamed"
       [] c = "C" -> "Copied"
       [] OTHER -> "Unknown"

parseGitDiffLine(line) ==
  LET fields == split(line, TAB)
      status == fields[1]
      fileParts == Tail(fields)
      filePath == join(fileParts, TAB)
  IN [path |-> filePath, type |-> changeTypeOf(status), status |-> status]

parseGitDiff(diffOutput) ==
  LET lines == NonBlank(split(diffOutput, NL))
  IN [i \in 1..Len(lines) |-> parseGitDiffLine(lines[i])]

(***************************************************************************)
(* Per-repository analyzer: the body of analyzeCodeChanges                 *)
(***************************************************************************)
Includes(arr, x) == \E i \in 1..Len(arr) : arr[i] = x

\* const analysis = { totalCommits: commits.length, ... }
NewAnalysis(commits) ==
  [totalCommits |-> Len(commits),
   totalFilesChanged |-> 0,
   fileTypes |-> <<>>,
   fileChanges |-> [added |-> 0, modified |-> 0, deleted |-> 0, renamed |-> 0],
   lineChanges |-> [additions |-> 0, deletions |-> 0],
   mostChangedFiles |-> <<>>,
   commitsByAuthor |-> <<>>]

\* if (ext && !config.ignoreFileTypes.includes(ext)) fileTypes[ext]++
CountFileType(fileTypes, ignoreFileTypes, filePath) ==
  LET ext == toLowerCase(extname(filePath))
  IN IF ext # <<>> /\ ~Includes(ignoreFileTypes, ext)
     THEN ObjPut(fileTypes, ext,
                 (IF ObjHas(fileTypes, ext) THEN ObjGet(fileTypes, ext) ELSE 0) + 1)
     ELSE fileTypes

\* switch (file.type) { case added/modified/deleted/renamed: counter++ }
CountChangeType(fileChanges, type) ==
  CASE type = "Added" -> [fileChanges EXCEPT !.added = @ + 1]
    [] type = "Modified" -> [fileChanges EXCEPT !.modified = @ + 1]
    [] type = "Deleted" -> [fileChanges EXCEPT !.deleted = @ + 1]
    [] type = "Renamed" -> [fileChanges EXCEPT !.renamed = @ + 1]
    [] OTHER -> fileChanges

\* One step of changedFiles.forEach(file => ...); st is the pair of the
\* analysis under construction and the allChangedFiles array.
FoldFile(st, ignoreFileTypes, file, hash) ==
  [analysis |->
     [st.analysis EXCEPT
        !.fileTypes = CountFileType(@, ignoreFileTypes, file.path),
        !.fileChanges = CountChangeType(@, file.type)],
   allChangedFiles |->
     Append(st.allChangedFiles,
            [path |-> file.path, type |-> file.type, commit |-> hash])]

RECURSIVE FoldFiles(_, _, _, _)
FoldFiles(st, ignoreFileTypes, changedFiles, hash) ==
  IF changedFiles = <<>> THEN st
  ELSE FoldFiles(FoldFile(st, ignoreFileTypes, Head(changedFiles), hash),
                 ignoreFileTypes, Tail(changedFiles), hash)

AddLines(st, ins, del) ==
  [st EXCEPT !.analysis.lineChanges =
     [additions |-> @.additions + ins, deletions |-> @.deletions + del]]

\* commitsByAuthor[author] created on first sight, then commits++
CountAuthorCommit(st, author) ==
  LET cur == IF ObjHas(st.analysis.commitsByAuthor, author)
             THEN ObjGet(st.analysis.commitsByAuthor, author)
             ELSE [commits |-> 0, additions |-> 0, deletions |-> 0]
  IN [st EXCEPT !.analysis.commitsByAuthor =
        ObjPut(@, author, [cur EXCEPT !.commits = @ + 1])]

AddAuthorLines(st, author, ins, del) ==
  LET cur == ObjGet(st.analysis.commitsByAuthor, author)
  IN [st EXCEPT !.analysis.commitsByAuthor =
        ObjPut(@, author, [cur EXCEPT !.additions = @ + ins,
                                      !.deletions = @ + del])]

\* show.match(/(\d+) files? changed(?:, (\d+) insertions?\(\+\))?
\*            (?:, (\d+) deletions?\(-\))?/): a missing clause is an
\* undefined group, read as 0 by parseInt(group || 0, 10).
StatInsertions(show) == IF show.matched /\ show.hasIns THEN show.ins ELSE 0

StatDeletions(show) == IF show.matched /\ show.hasDel THEN show.del ELSE 0

\* a variant that credits the lines of the stat summary to the author
RootCommitBodyWithAuthorLines(st, ignoreFileTypes, commit, g) ==
  IF ~g.lsTree.ok THEN st
  ELSE IF ~g.show.ok THEN st
  ELSE LET changedFiles == parseFirstCommitFiles(g.lsTree.out)
           s1 == AddLines(st, StatInsertions(g.show), StatDeletions(g.show))
           s2 == FoldFiles(s1, ignoreFileTypes, changedFiles, commit.hash)
           s3 == CountAuthorCommit(s2, commit.author)
       IN AddAuthorLines(s3, commit.author, StatInsertions(g.show),
                         StatDeletions(g.show))

\* The try block for a commit with isFirstCommit: g.lsTree and g.show are
\* the results of the two git queries (ok = FALSE: the query threw, and the
\* catch leaves the state as it was at that point).
RootCommitBody(st, ignoreFileTypes, commit, g) ==
  IF ~g.lsTree.ok THEN st
  ELSE IF ~g.show.ok THEN st
  ELSE LET changedFiles == parseFirstCommitFiles(g.lsTree.out)
           s1 == AddLines(st, StatInsertions(g.show), StatDeletions(g.show))
           s2 == FoldFiles(s1, ignoreFileTypes, changedFiles, commit.hash)
       IN CountAuthorCommit(s2, commit.author)

\* The try block for any other commit: diffSummary, diff --name-status,
\* the forEach, the author update and the second diffSummary.
NonRootCommitBody(st, ignoreFileTypes, commit, g) ==
  IF ~g.stats1.ok THEN st
  ELSE LET s1 == AddLines(st, g.stats1.insertions, g.stats1.deletions)
       IN IF ~g.diff.ok THEN s1
          ELSE LET changedFiles == parseGitDiff(g.diff.out)
                   s2 == FoldFiles(s1, ignoreFileTypes, changedFiles, commit.hash)
                   s3 == CountAuthorCommit(s2, commit.author)
               IN IF ~g.stats2.ok THEN s3
                  ELSE AddAuthorLines(s3, commit.author,
                                      g.stats2.insertions, g.stats2.deletions)

\* _.uniqBy(allChangedFiles, 'path').length
UniqByPathLength(allChangedFiles) ==
  Cardinality({allChangedFiles[i].path : i \in 1..Len(allChangedFiles)})

\* _.countBy(allChangedFiles, 'path'): an object path -> count
RECURSIVE countByPath(_, _)
countByPath(allChangedFiles, result) ==
  IF allChangedFiles = <<>> THEN result
  ELSE LET key == Head(allChangedFiles).path
       IN countByPath(Tail(allChangedFiles),
                      ObjPut(result, key,
                             IF ObjHas(result, key) THEN ObjGet(result, key) + 1
                             ELSE 1))

\* Array.prototype.sort((a, b) => b.count - a.count): stable
RECURSIVE InsertByCount(_, _)
InsertByCount(sorted, e) ==
  IF sorted = <<>> THEN <<e>>
  ELSE IF Head(sorted).count >= e.count
       THEN <<Head(sorted)>> \o InsertByCount(Tail(sorted), e)
       ELSE <<e>> \o sorted

RECURSIVE SortByCountDesc(_)
SortByCountDesc(arr) ==
  IF arr = <<>> THEN <<>>
  ELSE InsertByCount(SortByCountDesc(SubSeq(arr, 1, Len(arr) - 1)), arr[Len(arr)])

TopFiles == 5

\* Object.entries(fileChangeCounts).map(...).sort(...).slice(0, 5)
MostChangedFiles(allChangedFiles) ==
  LET fileChangeCounts == countByPath(allChangedFiles, <<>>)
      entries == [i \in 1..Len(fileChangeCounts) |->
                    [path |-> fileChangeCounts[i].k,
                     count |-> fileChangeCounts[i].v]]
      sorted == SortByCountDesc(entries)
  IN SubSeq(sorted, 1, IF Len(sorted) < TopFiles THEN Len(sorted) ELSE TopFiles)

\* The statements after the loop, and the returned analysis
FinishAnalysis(st) ==
  [st.analysis EXCEPT
     !.totalFilesChanged = UniqByPathLength(st.allChangedFiles),
     !.mostChangedFiles = MostChangedFiles(st.allChangedFiles)]

(***************************************************************************)
(* Time window oracle.  Instants are integer ticks; a day has Day ticks.   *)
(***************************************************************************)
Day == 2

\* moment(t).startOf('day') and moment(t).endOf('day')
startOfDay(t) == (t \div Day) * Day

endOfDay(t) == startOfDay(t) + Day - 1

\* moment().subtract(config.reportDays, 'days').startOf('day'), the clock
\* reading being the argument
getReportStartDate(clock, reportDays) == startOfDay(clock - reportDays * Day)

\* moment().endOf('day')
getReportEndDate(clock) == endOfDay(clock)

\* moment(date).format('YYYY-MM-DD HH:mm:ss'): the day and the time of day
formatDate(t) == <<t \div Day, t % Day>>

\* a variant that leaves the start instant itself out
isAfter(a, b) == a > b

isSameOrAfter(a, b) == a >= b

isSameOrBefore(a, b) == a <= b

\* isDateInReportRange(date): the start is computed from the clock reading
\* clockS and, when the first comparison holds, the end from clockE.
isDateInReportRange(date, clockS, clockE, reportDays) ==
  /\ isSameOrAfter(date, getReportStartDate(clockS, reportDays))
  /\ isSameOrBefore(date, getReportEndDate(clockE))

(***************************************************************************)
(* Commit history reader                                                   *)
(***************************************************************************)
\* allCommits.findIndex(c => c.hash === commitHash) === allCommits.length - 1
isFirstCommit(allCommits, commitHash) ==
  LET found == {i \in 1..Len(allCommits) : allCommits[i].hash = commitHash}
      index == IF found = {} THEN 0
               ELSE CHOOSE i \in found : \A j \in found : i <= j
  IN index = Len(allCommits)

\* a variant that looks the commit up among the commits the filter kept
MapCommitsOfFiltered(allCommits, filteredCommits) ==
  [i \in 1..Len(filteredCommits) |->
     [hash |-> filteredCommits[i].hash,
      date |-> formatDate(filteredCommits[i].date),
      author |-> filteredCommits[i].author_name,
      isFirstCommit |-> isFirstCommit(filteredCommits, filteredCommits[i].hash)]]

\* filteredCommits.map(commit => ({hash, date, message, author, email,
\* isFirstCommit}))
MapCommits(allCommits, filteredCommits) ==
  [i \in 1..Len(filteredCommits) |->
     [hash |-> filteredCommits[i].hash,
      date |-> formatDate(filteredCommits[i].date),
      author |-> filteredCommits[i].author_name,
      isFirstCommit |-> isFirstCommit(allCommits, filteredCommits[i].hash)]]

(***************************************************************************)
(* What git prints.  The queries are the ones the program issues:          *)
(*   git ls-tree --name-status -r <hash>    names only, one per line       *)
(*   git diff <hash>^ <hash> --name-status  status TAB path [TAB path]     *)
(***************************************************************************)
RECURSIVE Lines(_)
Lines(ls) == IF ls = <<>> THEN <<>> ELSE Head(ls) \o <<NL>> \o Lines(Tail(ls))

\* ls-tree with --name-status (a synonym of --name-only) prints the path
\* alone; without it, "<mode> <type> <object>" TAB path.
LsTreeLine(nameOnly, filePath) ==
  IF nameOnly THEN filePath
  ELSE <<"1", "0", "0", "6", "4", "4", " ", "b", "l", "o", "b", " ", "f">>
       \o <<TAB>> \o filePath

GitLsTree(nameOnly, tree) ==
  Lines([i \in 1..Len(tree) |-> LsTreeLine(nameOnly, tree[i])])

\* a change is [status, paths]: one path, or two for a rename or a copy
GitDiffNameStatus(changes) ==
  Lines([i \in 1..Len(changes) |->
           changes[i].status \o <<TAB>> \o join(changes[i].paths, TAB)])

\* The summary line of git show --stat as the pattern of analyzeCodeChanges
\* reads it: no line when no file changed; a clause is left out when its
\* count is 0, unless both are 0.
GitShowStat(files, ins, del) ==
  [ok |-> TRUE,
   matched |-> files > 0,
   hasIns |-> ins > 0 \/ del = 0,
   ins |-> ins,
   hasDel |-> del > 0 \/ ins = 0,
   del |-> del]

GitDiffSummary(ins, del) == [ok |-> TRUE, insertions |-> ins, deletions |-> del]

GitFailed == [ok |-> FALSE]

GitOutput(text) == [ok |-> TRUE, out |-> text]

(***************************************************************************)
(* Inputs: paths, changes, commits and configurations the runs draw from   *)
(***************************************************************************)
P_a_go == <<"a", ".", "g", "o">>
P_e_go == <<"e", ".", "g", "o">>
P_c_go == <<"c", ".", "g", "o">>
P_b_md == <<"b", ".", "m", "d">>
P_R_MD == <<"R", ".", "M", "D">>
P_b_txt == <<"b", ".", "t", "x", "t">>
P_7 == <<"7">>
P_x_ts == <<"s", "r", "c", "/", "x", ".", "t", "s">>
P_y_ts == <<"s", "r", "c", "/", "y", ".", "t", "s">>
P_a_DS == <<"a", ".", "D", "S", "_", "S", "t", "o", "r", "e">>
P_gitignore == <<".", "g", "i", "t", "i", "g", "n", "o", "r", "e">>

Change(status, paths) == [status |-> status, paths |-> paths]

\* what a non-root commit did: its changes against the parent in the order
\* git lists them (by path), and the inserted and deleted line counts
Diff_AddTwo ==
  [changes |-> <<Change(<<"A">>, <<P_a_go>>), Change(<<"A">>, <<P_b_md>>)>>,
   ins |-> 2, del |-> 0]
Diff_ModifyAdd ==
  [changes |-> <<Change(<<"M">>, <<P_a_go>>), Change(<<"A">>, <<P_y_ts>>)>>,
   ins |-> 1, del |-> 1]
Diff_Numeric ==
  [changes |-> <<Change(<<"A">>, <<P_7>>), Change(<<"A">>, <<P_b_txt>>)>>,
   ins |-> 2, del |-> 0]
Diff_RenameCopy ==
  [changes |-> <<Change(<<"C", "7", "5">>, <<P_a_go, P_c_go>>),
                 Change(<<"R", "1", "0", "0">>, <<P_a_go, P_e_go>>)>>,
   ins |-> 0, del |-> 0]
Diff_TypeDelete ==
  [changes |-> <<Change(<<"D">>, <<P_b_md>>), Change(<<"T">>, <<P_x_ts>>)>>,
   ins |-> 0, del |-> 1]
Diff_UpperCase ==
  [changes |-> <<Change(<<"A">>, <<P_gitignore>>), Change(<<"M">>, <<P_R_MD>>),
                 Change(<<"A">>, <<P_a_DS>>)>>,
   ins |-> 1, del |-> 0]

\* what a root commit holds: its tree, and the line count of its files
Tree_GoMd == [tree |-> <<P_a_go, P_b_md>>, ins |-> 2]
Tree_Mixed == [tree |-> <<P_gitignore, P_7, P_x_ts>>, ins |-> 3]
Tree_Empty == [tree |-> <<P_x_ts>>, ins |-> 0]

RichDiffs == {Diff_AddTwo, Diff_ModifyAdd, Diff_Numeric, Diff_RenameCopy,
              Diff_TypeDelete, Diff_UpperCase}
RichTrees == {Tree_GoMd, Tree_Mixed, Tree_Empty}
RunDiffs == {Diff_AddTwo, Diff_ModifyAdd}
RunTrees == {Tree_GoMd}

\* The answers git gives for one non-root commit with the given changes:
\* the first diffSummary, diff --name-status and the second diffSummary,
\* each of which may throw.
NonRootResults(diffs) ==
  UNION {
    LET stats == GitDiffSummary(d.ins, d.del)
        diff == GitOutput(GitDiffNameStatus(d.changes))
    IN {[changes |-> d.changes, stats1 |-> stats, diff |-> diff, stats2 |-> stats],
        [changes |-> d.changes, stats1 |-> GitFailed, diff |-> diff,
         stats2 |-> stats],
        [changes |-> d.changes, stats1 |-> stats, diff |-> GitFailed,
         stats2 |-> stats],
        [changes |-> d.changes, stats1 |-> stats, diff |-> diff,
         stats2 |-> GitFailed]}
    : d \in diffs}

\* The answers for a root commit: ls-tree --name-status -r and show --stat
RootResults(trees) ==
  UNION {
    LET lsTree == GitOutput(GitLsTree(TRUE, t.tree))
        show == GitShowStat(Len(t.tree), t.ins, 0)
    IN {[tree |-> t.tree, lsTree |-> lsTree, show |-> show],
        [tree |-> t.tree, lsTree |-> GitFailed, show |-> show],
        [tree |-> t.tree, lsTree |-> lsTree, show |-> GitFailed]}
    : t \in trees}

Ann == <<"a", "n", "n">>
Bob == <<"b", "o", "b">>
Authors == {Ann, Bob}

DefaultIgnoreFileTypes ==
  << <<".", "l", "o", "g">>, <<".", "l", "o", "c", "k">>, <<".", "m", "d">>,
     <<".", "g", "i", "t", "i", "g", "n", "o", "r", "e">>,
     <<".", "D", "S", "_", "S", "t", "o", "r", "e">> >>

CustomIgnoreFileTypes == << <<".", "g", "o">> >>

IgnoreChoices == {DefaultIgnoreFileTypes, CustomIgnoreFileTypes}

MaxRepos == 2
MaxLog == 2
MaxDays == 1
MaxTicks == 1

\* the clock starts on the last ticks of a day, so that a tick crosses midnight
Clock0 == MaxDays * Day + Day - 1
MaxClock == Clock0 + MaxTicks
Dates == 0..(MaxClock + Day)

\* log.all of git log: newest first, hashes unique
LogsOf(dates, authors, maxLen) ==
  UNION {[1..n -> dates \X authors] : n \in 1..maxLen}

\* The log of the history whose i-th listed commit has the listed commits
\* parentsOf[i] as parents.  The parents are the repository's, not a
\* property of log.all: the program reads hash, date and author_name only.
GraphLog(f, parentsOf) ==
  [i \in 1..Len(f) |->
     [hash |-> Len(f) + 1 - i, date |-> f[i][1], author_name |-> f[i][2],
      parents |-> {Len(f) + 1 - j : j \in parentsOf[i]}]]

\* a linear history: every commit is the child of the next one listed
ToLog(f) ==
  GraphLog(f, [i \in 1..Len(f) |-> IF i < Len(f) THEN {i + 1} ELSE {}])

\* The parent relations git log can list in this order starting from HEAD:
\* no cycle, and every commit but HEAD is listed after one of its children
\* (it is queued when a child is printed; among queued commits the commit
\* date decides, so a commit may precede another of its children or a
\* commit older than it).
GraphsOf(n) ==
  {g \in [1..n -> SUBSET (1..n)] :
     /\ \A j \in 2..n : \E i \in 1..(j - 1) : j \in g[i]
     /\ \E rank \in [1..n -> 1..n] :
          \A i \in 1..n : \A j \in g[i] : rank[i] < rank[j]}

\* git rev-parse <hash>^ resolves: the commit has a parent
HasParent(allCommits, hash) ==
  \E i \in 1..Len(allCommits) :
    allCommits[i].hash = hash /\ allCommits[i].parents # {}

(***************************************************************************)
(* Command line, configuration file and configuration object               *)
(***************************************************************************)
\* JavaScript values of the options: undefined, a string, a number
Undefined == [undef |-> TRUE]

Str(s) == [str |-> s]

Num(n) == [num |-> n]

\* if (value): undefined, '' and 0 are falsy
Truthy(v) ==
  IF v = Undefined THEN FALSE
  ELSE IF "str" \in DOMAIN v THEN v.str # <<>>
  ELSE v.num # 0

\* parseInt(value, 10) of a number or of a string of decimal digits
RECURSIVE DigitsValue(_)
DigitsValue(s) ==
  IF s = <<>> THEN 0 ELSE DigitsValue(SubSeq(s, 1, Len(s) - 1)) * 10 + DigitVal(s[Len(s)])

parseInt(v) == IF "num" \in DOMAIN v THEN v.num ELSE DigitsValue(v.str)

Fmt_markdown == <<"m", "a", "r", "k", "d", "o", "w", "n">>
Fmt_json == <<"j", "s", "o", "n">>
Fmt_text == <<"t", "e", "x", "t">>
Fmt_JSON == <<"J", "S", "O", "N">>
Fmt_Markdown == <<"M", "a", "r", "k", "d", "o", "w", "n">>
Fmt_html == <<"h", "t", "m", "l">>
Ext_md == <<"m", "d">>

Path_reports == <<".", "/", "r", "e", "p", "o", "r", "t", "s">>
Path_out == <<"o", "u", "t">>
Path_code == <<"c", "o", "d", "e">>
Path_nowhere == <<"n", "o", "n", "e">>
Path_custom == <<"c", ".", "j", "s">>
Path_broken == <<"b", ".", "j", "s">>
Path_missing == <<"m", ".", "j", "s">>
Path_ignore == <<"i", ".", "j", "s">>

DefaultReportDays == 7

\* src/config/default.js, the fields the run reads
DefaultConfig ==
  [codeBasePath |-> <<>>,
   reportDays |-> DefaultReportDays,
   outputFormat |-> Fmt_markdown,
   outputPath |-> Path_reports,
   includeCodeAnalysis |-> TRUE,
   ignoreFileTypes |-> DefaultIgnoreFileTypes]

\* the default exports of the configuration files --config may name
ReportConfigFile ==
  [reportDays |-> 1, outputFormat |-> Fmt_json, outputPath |-> Path_out]

IgnoreConfigFile == [ignoreFileTypes |-> CustomIgnoreFileTypes]

\* what is at a path --config names: nothing, a module whose import throws,
\* or a module with a default export
ConfigFileAt(filePath) ==
  IF filePath = Path_custom
  THEN [exists |-> TRUE, loads |-> TRUE, default |-> ReportConfigFile]
  ELSE IF filePath = Path_ignore
  THEN [exists |-> TRUE, loads |-> TRUE, default |-> IgnoreConfigFile]
  ELSE IF filePath = Path_broken THEN [exists |-> TRUE, loads |-> FALSE]
  ELSE [exists |-> FALSE]

\* Object.assign(config, customConfig.default)
ObjectAssign(target, source) ==
  [k \in DOMAIN target |-> IF k \in DOMAIN source THEN source[k] ELSE target[k]]

\* The command line: the value given to an option, Undefined when the
\* option is not on the command line, and the flags.
NoArgs ==
  [days |-> Undefined, path |-> Undefined, output |-> Undefined,
   format |-> Undefined, config |-> Undefined, noAnalysis |-> FALSE,
   ignoreErrors |-> FALSE]

\* program.opts() after program.parse(): an option that is not given has
\* the default passed to program.option(), read from the configuration
\* object when the options are declared
ProgramOpts(args, defaults) ==
  [days |-> IF args.days = Undefined THEN Num(defaults.reportDays) ELSE args.days,
   path |-> IF args.path = Undefined THEN Str(defaults.codeBasePath) ELSE args.path,
   output |-> IF args.output = Undefined THEN Str(defaults.outputPath)
              ELSE args.output,
   format |-> IF args.format = Undefined THEN Str(defaults.outputFormat)
              ELSE args.format,
   analysis |-> ~args.noAnalysis,
   config |-> args.config,
   ignoreErrors |-> args.ignoreErrors]

\* lines 60-64: the options are applied to the configuration object
ApplyOptions(cfg, opts) ==
  LET c1 == IF Truthy(opts.days)
            THEN [cfg EXCEPT !.reportDays = parseInt(opts.days)] ELSE cfg
      c2 == IF Truthy(opts.path)
            THEN [c1 EXCEPT !.codeBasePath = opts.path.str] ELSE c1
      c3 == IF Truthy(opts.output)
            THEN [c2 EXCEPT !.outputPath = opts.output.str] ELSE c2
      c4 == IF Truthy(opts.format)
            THEN [c3 EXCEPT !.outputFormat = opts.format.str] ELSE c3
  IN IF opts.analysis = FALSE THEN [c4 EXCEPT !.includeCodeAnalysis = FALSE]
     ELSE c4

(***************************************************************************)
(* Cross-repository aggregator                                             *)
(***************************************************************************)
Null == [isNull |-> TRUE]

NewSummary ==
  [totalCommits |-> 0,
   totalFilesChanged |-> 0,
   totalAdditions |-> 0,
   totalDeletions |-> 0,
   commitsByAuthor |-> <<>>,
   fileTypes |-> <<>>,
   fileChanges |-> [added |-> 0, modified |-> 0, deleted |-> 0, renamed |-> 0]]

\* Object.entries(repo.analysis.fileTypes).forEach(([type, count]) =>
\*   summary.fileTypes[type] = (summary.fileTypes[type] || 0) + count)
RECURSIVE MergeFileTypes(_, _)
MergeFileTypes(fileTypes, entries) ==
  IF entries = <<>> THEN fileTypes
  ELSE LET type == Head(entries).k
           count == Head(entries).v
       IN MergeFileTypes(
            ObjPut(fileTypes, type,
                   (IF ObjHas(fileTypes, type) THEN ObjGet(fileTypes, type) ELSE 0)
                   + count),
            Tail(entries))

\* a variant that stores the repository's figures instead of adding them
RECURSIVE OverwriteAuthors(_, _)
OverwriteAuthors(commitsByAuthor, entries) ==
  IF entries = <<>> THEN commitsByAuthor
  ELSE OverwriteAuthors(ObjPut(commitsByAuthor, Head(entries).k, Head(entries).v),
                        Tail(entries))

\* Object.entries(repo.analysis.commitsByAuthor).forEach(([author, stats]) => ...)
RECURSIVE MergeAuthors(_, _)
MergeAuthors(commitsByAuthor, entries) ==
  IF entries = <<>> THEN commitsByAuthor
  ELSE LET author == Head(entries).k
           stats == Head(entries).v
           cur == IF ObjHas(commitsByAuthor, author)
                  THEN ObjGet(commitsByAuthor, author)
                  ELSE [commits |-> 0, additions |-> 0, deletions |-> 0]
       IN MergeAuthors(
            ObjPut(commitsByAuthor, author,
                   [commits |-> cur.commits + stats.commits,
                    additions |-> cur.additions + stats.additions,
                    deletions |-> cur.deletions + stats.deletions]),
            Tail(entries))

\* the part of the forEach body guarded by if (repo.analysis)
SummaryAddAnalysis(summary, a) ==
  [summary EXCEPT
     !.totalFilesChanged = @ + a.totalFilesChanged,
     !.totalAdditions = @ + a.lineChanges.additions,
     !.totalDeletions = @ + a.lineChanges.deletions,
     !.fileTypes = MergeFileTypes(@, a.fileTypes),
     !.fileChanges = [added |-> @.added + a.fileChanges.added,
                      modified |-> @.modified + a.fileChanges.modified,
                      deleted |-> @.deleted + a.fileChanges.deleted,
                      renamed |-> @.renamed + a.fileChanges.renamed],
     !.commitsByAuthor = MergeAuthors(@, a.commitsByAuthor)]

\* a variant that counts the commits of analysed repositories only
SummaryAddAnalysedRepo(summary, repo) ==
  IF repo.analysis # Null
  THEN SummaryAddAnalysis([summary EXCEPT !.totalCommits = @ + Len(repo.commits)],
                          repo.analysis)
  ELSE summary

\* the body of repoReports.forEach(repo => ...)
SummaryAddRepo(summary, repo) ==
  LET s1 == [summary EXCEPT !.totalCommits = @ + Len(repo.commits)]
  IN IF repo.analysis # Null THEN SummaryAddAnalysis(s1, repo.analysis) ELSE s1

RECURSIVE SummaryFold(_, _)
SummaryFold(summary, repoReports) ==
  IF repoReports = <<>> THEN summary
  ELSE SummaryFold(SummaryAddRepo(summary, Head(repoReports)), Tail(repoReports))

generateSummaryStats(repoReports) == SummaryFold(NewSummary, repoReports)

\* repoReports.sort((a, b) => b.commits.length - a.commits.length): stable
RECURSIVE InsertByCommits(_, _)
InsertByCommits(sorted, r) ==
  IF sorted = <<>> THEN <<r>>
  ELSE IF Len(Head(sorted).commits) >= Len(r.commits)
       THEN <<Head(sorted)>> \o InsertByCommits(Tail(sorted), r)
       ELSE <<r>> \o sorted

RECURSIVE SortByCommitsDesc(_)
SortByCommitsDesc(arr) ==
  IF arr = <<>> THEN <<>>
  ELSE InsertByCommits(SortByCommitsDesc(SubSeq(arr, 1, Len(arr) - 1)),
                       arr[Len(arr)])

\* a variant that keeps every report
KeepsAll(r) == TRUE

\* if (report.commits && report.commits.length > 0) repoReports.push(report)
HasCommits(r) == Len(r.commits) > 0

\* the object generateFullReport returns
FullReport(start, end, paths, reports) ==
  LET sorted == SortByCommitsDesc(reports)
  IN [startDate |-> formatDate(start),
      endDate |-> formatDate(end),
      totalRepos |-> Len(paths),
      reposWithCommits |-> Len(sorted),
      summary |-> generateSummaryStats(sorted),
      repositories |-> sorted]

(***************************************************************************)
(* The run: main, generateFullReport, generateRepoReport,                  *)
(* getCommitsInDateRange and analyzeCodeChanges as one sequential process  *)
(***************************************************************************)
VARIABLES
  argv,         \* the command line
  options,      \* program.opts()
  exitCode,     \* Running, or the code the process ended with
  thrown,       \* an exception reached the catch of main
  reportContent, \* main's reportContent: the renderer used and its input
  filename,     \* main's filename
  written,      \* the files writeReport wrote
  config,       \* the configuration object
  now,          \* the wall clock
  pc,           \* where the run is
  repoPaths,    \* generateFullReport's argument
  repoIdx,      \* the repository the for-of loop is at
  startDate,    \* generateFullReport's startDate
  endDate,      \* generateFullReport's endDate
  repoInfo,     \* generateRepoReport's repoInfo
  log,          \* getCommitsInDateRange's log.all
  logIdx,       \* the entry log.all.filter is at
  kept,         \* the entries the filter kept so far
  commits,      \* analyzeCodeChanges' commits
  commitIdx,    \* the commit its for-of loop is at
  st,           \* its analysis and allChangedFiles
  answers,      \* what git answered for each commit of the loop so far
  repoReports,  \* generateFullReport's repoReports
  returned,     \* the reports generateRepoReport returned, in call order
  report        \* what generateFullReport returned

mainVars == <<argv, options, exitCode, thrown, reportContent, filename, written>>

vars == <<mainVars, config, now, pc, repoPaths, repoIdx, startDate, endDate, repoInfo, log,
          logIdx, kept, commits, commitIdx, st, answers, repoReports, returned,
          report>>

NoSt == [analysis |-> Null, allChangedFiles |-> <<>>]

Running == -1

\* The configuration object when main starts (lines 34-64): the options
\* are read, the file --config names is merged into the defaults, and the
\* options are applied.
ResolveConfig(args) ==
  LET opts == ProgramOpts(args, DefaultConfig)
      merged == IF Truthy(opts.config)
                THEN ObjectAssign(DefaultConfig, ConfigFileAt(opts.config.str).default)
                ELSE DefaultConfig
  IN ApplyOptions(merged, opts)

\* the command lines of the runs over the sample repositories
RunArgs ==
  {[NoArgs EXCEPT !.days = Str(<<Digits[d + 1]>>), !.path = Str(Path_code),
                  !.noAnalysis = na, !.config = c] :
     d \in 0..MaxDays, na \in BOOLEAN, c \in {Undefined, Str(Path_ignore)}}

Configs == {ResolveConfig(a) : a \in RunArgs}

\* main has not formatted or written anything, and the process runs
MainIdle ==
  /\ argv \in {a \in RunArgs : ResolveConfig(a) = config}
  /\ options = ProgramOpts(argv, DefaultConfig)
  /\ exitCode = Running
  /\ thrown = FALSE
  /\ reportContent = Null
  /\ filename = Null
  /\ written = <<>>

InitClocks == {Clock0 - 1, Clock0}

\* the clock readings a second call of moment() may return
LaterClocks == {c \in now..(now + 1) : c <= MaxClock}

RepoLocalsIdle ==
  /\ repoInfo = Null
  /\ log = <<>>
  /\ logIdx = 0
  /\ kept = <<>>
  /\ commits = <<>>
  /\ commitIdx = 0
  /\ st = NoSt
  /\ answers = <<>>

Init ==
  /\ config \in Configs
  /\ MainIdle
  /\ now \in InitClocks
  /\ pc = "start"
  /\ repoPaths \in {[i \in 1..n |-> i] : n \in 1..MaxRepos}
  /\ repoIdx = 1
  /\ startDate = 0
  /\ endDate = 0
  /\ RepoLocalsIdle
  /\ repoReports = <<>>
  /\ returned = <<>>
  /\ report = Null

\* time passes
Tick ==
  /\ pc # "exited"
  /\ now < MaxClock
  /\ now' = now + 1
  /\ UNCHANGED <<mainVars, config, pc, repoPaths, repoIdx, startDate, endDate, repoInfo,
                 log, logIdx, kept, commits, commitIdx, st, answers, repoReports,
                 returned, report>>

\* generateFullReport, lines 63-69
GenerateFullReportStart ==
  /\ pc = "start"
  /\ \E clockE \in LaterClocks :
       /\ startDate' = getReportStartDate(now, config.reportDays)
       /\ endDate' = getReportEndDate(clockE)
       /\ now' = clockE
  /\ pc' = "repoLoop"
  /\ UNCHANGED <<mainVars, config, repoPaths, repoIdx, repoInfo, log, logIdx, kept, commits,
                 commitIdx, st, answers, repoReports, returned, report>>

\* a variant in which the error of an unreadable repository is not caught
\* and ends the run
AbortOnRepoError(r) ==
  /\ returned' = Append(returned, r)
  /\ repoReports' = repoReports
  /\ repoIdx' = repoIdx
  /\ pc' = IF r.error THEN "exited" ELSE "repoLoop"
  /\ repoInfo' = Null
  /\ log' = <<>>
  /\ logIdx' = 0
  /\ kept' = <<>>
  /\ commits' = <<>>
  /\ commitIdx' = 0
  /\ st' = NoSt
  /\ answers' = <<>>

\* generateRepoReport returns r to the loop of generateFullReport, which
\* keeps it when it has commits and goes on to the next repository
ReturnRepoReport(r) ==
  /\ returned' = Append(returned, r)
  /\ repoReports' = IF HasCommits(r) THEN Append(repoReports, r) ELSE repoReports
  /\ repoIdx' = repoIdx + 1
  /\ pc' = "repoLoop"
  /\ repoInfo' = Null
  /\ log' = <<>>
  /\ logIdx' = 0
  /\ kept' = <<>>
  /\ commits' = <<>>
  /\ commitIdx' = 0
  /\ st' = NoSt
  /\ answers' = <<>>

RepoReport(info, cs, analysis) ==
  [name |-> info.name, isEmpty |-> info.isEmpty, error |-> info.error,
   commits |-> cs, analysis |-> analysis]

\* generateRepoReport, lines 14-32: getRepositoryInfo answers with an error
\* (a query threw), with an empty repository (HEAD does not resolve) or
\* with the repository's information
GetRepositoryInfo ==
  /\ pc = "repoLoop"
  /\ repoIdx <= Len(repoPaths)
  /\ \E outcome \in {"error", "empty", "ok"} :
       LET info == [name |-> repoPaths[repoIdx],
                    isEmpty |-> outcome # "ok",
                    error |-> outcome = "error"]
       IN IF info.error \/ info.isEmpty
          THEN ReturnRepoReport(RepoReport(info, <<>>, Null))
          ELSE /\ repoInfo' = info
               /\ pc' = "getCommits"
               /\ UNCHANGED <<repoIdx, log, logIdx, kept, commits, commitIdx, st,
                              answers, repoReports, returned>>
  /\ UNCHANGED <<mainVars, config, now, repoPaths, startDate, endDate, report>>

\* getCommitsInDateRange, lines 93-102: no HEAD, or git log throws: [] is
\* returned and generateRepoReport returns at line 38; otherwise log.all
ReadLog(logs) ==
  /\ pc = "getCommits"
  /\ \/ /\ \E failure \in {"noHead", "logThrows"} :
             ReturnRepoReport(RepoReport(repoInfo, <<>>, Null))
     \/ /\ \E l \in logs :
             /\ log' = l
             /\ logIdx' = 1
             /\ kept' = <<>>
             /\ pc' = "filter"
        /\ UNCHANGED <<repoIdx, repoInfo, commits, commitIdx, st, answers,
                       repoReports, returned>>
  /\ UNCHANGED <<mainVars, config, now, repoPaths, startDate, endDate, report>>

\* one call of the filter callback, lines 105-107
FilterCommit ==
  /\ pc = "filter"
  /\ logIdx <= Len(log)
  /\ \E clockE \in LaterClocks :
       /\ kept' = IF isDateInReportRange(log[logIdx].date, now, clockE,
                                         config.reportDays)
                  THEN Append(kept, log[logIdx])
                  ELSE kept
       /\ now' = clockE
  /\ logIdx' = logIdx + 1
  /\ UNCHANGED <<mainVars, config, pc, repoPaths, repoIdx, startDate, endDate, repoInfo,
                 log, commits, commitIdx, st, answers, repoReports, returned,
                 report>>

\* getCommitsInDateRange returns the mapped commits (lines 109-116);
\* generateRepoReport returns at line 38 when there is none; otherwise
\* analyzeCodeChanges starts, and returns null at line 237 when the
\* analysis is switched off
GetCommitsReturn ==
  /\ pc = "filter"
  /\ logIdx > Len(log)
  /\ LET cs == MapCommits(log, kept)
     IN IF Len(cs) = 0
        THEN ReturnRepoReport(RepoReport(repoInfo, <<>>, Null))
        ELSE IF ~config.includeCodeAnalysis
        THEN ReturnRepoReport(RepoReport(repoInfo, cs, Null))
        ELSE /\ commits' = cs
             /\ commitIdx' = 1
             /\ st' = [analysis |-> NewAnalysis(cs), allChangedFiles |-> <<>>]
             /\ pc' = "analyze"
             /\ UNCHANGED <<repoIdx, repoInfo, log, logIdx, kept, answers,
                            repoReports, returned>>
  /\ UNCHANGED <<mainVars, config, now, repoPaths, startDate, endDate, report>>

\* one iteration of the loop of analyzeCodeChanges for a commit with
\* isFirstCommit, lines 268-281 and 296-340
AnalyzeRootCommit(trees) ==
  /\ pc = "analyze"
  /\ commitIdx <= Len(commits)
  /\ commits[commitIdx].isFirstCommit
  /\ \E g \in RootResults(trees) :
       /\ st' = RootCommitBody(st, config.ignoreFileTypes, commits[commitIdx], g)
       /\ answers' = Append(answers, g)
  /\ commitIdx' = commitIdx + 1
  /\ UNCHANGED <<mainVars, config, now, pc, repoPaths, repoIdx, startDate, endDate, repoInfo,
                 log, logIdx, kept, commits, repoReports, returned, report>>

\* one iteration for any other commit, lines 282-340; git cannot resolve
\* <hash>^ for a commit without parent, and the first diffSummary throws
AnalyzeNonRootCommit(diffs) ==
  /\ pc = "analyze"
  /\ commitIdx <= Len(commits)
  /\ ~commits[commitIdx].isFirstCommit
  /\ \E g \in NonRootResults(diffs) :
       /\ HasParent(log, commits[commitIdx].hash) \/ ~g.stats1.ok
       /\ st' = NonRootCommitBody(st, config.ignoreFileTypes, commits[commitIdx],
                                  g)
       /\ answers' = Append(answers, g)
  /\ commitIdx' = commitIdx + 1
  /\ UNCHANGED <<mainVars, config, now, pc, repoPaths, repoIdx, startDate, endDate, repoInfo,
                 log, logIdx, kept, commits, repoReports, returned, report>>

\* the statements after the loop of analyzeCodeChanges, lines 343-351
AnalyzeFinish ==
  /\ pc = "analyze"
  /\ commitIdx > Len(commits)
  /\ st' = [st EXCEPT !.analysis = FinishAnalysis(st)]
  /\ pc' = "analyzed"
  /\ UNCHANGED <<mainVars, config, now, repoPaths, repoIdx, startDate, endDate, repoInfo,
                 log, logIdx, kept, commits, commitIdx, answers, repoReports,
                 returned, report>>

\* analyzeCodeChanges returns its analysis (line 353) and generateRepoReport
\* the report (lines 49-53)
AnalyzeReturn ==
  /\ pc = "analyzed"
  /\ ReturnRepoReport(RepoReport(repoInfo, commits, st.analysis))
  /\ UNCHANGED <<mainVars, config, now, repoPaths, startDate, endDate, report>>

\* generateFullReport, lines 91-104
GenerateFullReportReturn ==
  /\ pc = "repoLoop"
  /\ repoIdx > Len(repoPaths)
  /\ report' = FullReport(startDate, endDate, repoPaths, repoReports)
  /\ repoReports' = SortByCommitsDesc(repoReports)
  /\ pc' = "done"
  /\ UNCHANGED <<mainVars, config, now, repoPaths, repoIdx, startDate, endDate, repoInfo,
                 log, logIdx, kept, commits, commitIdx, st, answers, returned>>

\* the histories of the runs over several repositories
RunLogs ==
  {ToLog(<< <<Clock0, Ann>> >>),
   ToLog(<< <<Clock0, Bob>>, <<0, Ann>> >>),
   ToLog(<< <<0, Bob>> >>)}

Next ==
  \/ Tick
  \/ GenerateFullReportStart
  \/ GetRepositoryInfo
  \/ ReadLog(RunLogs)
  \/ FilterCommit
  \/ GetCommitsReturn
  \/ AnalyzeRootCommit(RunTrees)
  \/ AnalyzeNonRootCommit(RunDiffs)
  \/ AnalyzeFinish
  \/ AnalyzeReturn
  \/ GenerateFullReportReturn

Spec == Init /\ [][Next]_vars

(***************************************************************************)
(* The whole process: the command line is read, the configuration is       *)
(* resolved, main scans, builds the report, formats it, names it and       *)
(* writes it.                                                              *)
(***************************************************************************)
\* formatReport: the renderer chosen for config.outputFormat
formatReport(outputFormat) ==
  LET f == toLowerCase(outputFormat)
  IN IF f = Fmt_markdown THEN "markdown"
     ELSE IF f = Fmt_json THEN "json"
     ELSE IF f = Fmt_text THEN "text"
     ELSE "markdown"

\* moment.format('YYYYMMDD'): the day
formatDay(t) == t \div Day

\* generateReportFilename: git-report-<start>-to-<end>.<ext>, the window
\* being computed anew from two readings of the clock
generateReportFilename(clockS, clockE, cfg) ==
  [start |-> formatDay(getReportStartDate(clockS, cfg.reportDays)),
   end |-> formatDay(getReportEndDate(clockE)),
   ext |-> IF cfg.outputFormat = Fmt_markdown THEN Ext_md ELSE cfg.outputFormat]

\* fs.pathExists(rootDir)
PathExists(dirPath) == dirPath # Path_nowhere

\* process.exit(code): nothing runs after it
Exit(code) ==
  /\ exitCode' = code
  /\ pc' = "exited"

\* lines 41-64: the configuration file is merged into the configuration
\* object and the options are applied; a file that is missing or fails
\* to load ends the process with code 1
Configure ==
  /\ pc = "configure"
  /\ IF Truthy(options.config)
     THEN LET file == ConfigFileAt(options.config.str)
          IN IF file.exists /\ file.loads
             THEN /\ config' = ApplyOptions(ObjectAssign(config, file.default),
                                            options)
                  /\ pc' = "main"
                  /\ UNCHANGED exitCode
             ELSE /\ Exit(1)
                  /\ UNCHANGED config
     ELSE /\ config' = ApplyOptions(config, options)
          /\ pc' = "main"
          /\ UNCHANGED exitCode
  /\ UNCHANGED <<argv, options, thrown, reportContent, filename, written, now,
                 repoPaths, repoIdx, startDate, endDate, repoInfo, log, logIdx,
                 kept, commits, commitIdx, st, answers, repoReports, returned,
                 report>>

\* main, lines 83-114: the code base path is checked and scanned;
\* findAllGitRepositories finds between 0 and MaxRepos repositories
MainScan ==
  /\ pc = "main"
  /\ IF ~PathExists(config.codeBasePath)
     THEN /\ Exit(1)
          /\ UNCHANGED repoPaths
     ELSE \E n \in 0..MaxRepos :
            IF n = 0
            THEN /\ Exit(0)
                 /\ UNCHANGED repoPaths
            ELSE /\ repoPaths' = [i \in 1..n |-> i]
                 /\ pc' = "start"
                 /\ UNCHANGED exitCode
  /\ UNCHANGED <<argv, options, thrown, reportContent, filename, written, config,
                 now, repoIdx, startDate, endDate, repoInfo, log, logIdx, kept,
                 commits, commitIdx, st, answers, repoReports, returned, report>>

\* main, line 118
FormatReport ==
  /\ pc = "done"
  /\ reportContent' = [renderer |-> formatReport(config.outputFormat),
                       data |-> report]
  /\ pc' = "formatted"
  /\ UNCHANGED <<argv, options, exitCode, thrown, filename, written, config, now,
                 repoPaths, repoIdx, startDate, endDate, repoInfo, log, logIdx,
                 kept, commits, commitIdx, st, answers, repoReports, returned,
                 report>>

\* main, line 121
GenerateReportFilename ==
  /\ pc = "formatted"
  /\ \E clockE \in LaterClocks :
       /\ filename' = generateReportFilename(now, clockE, config)
       /\ now' = clockE
  /\ pc' = "named"
  /\ UNCHANGED <<argv, options, exitCode, thrown, reportContent, written, config,
                 repoPaths, repoIdx, startDate, endDate, repoInfo, log, logIdx,
                 kept, commits, commitIdx, st, answers, repoReports, returned,
                 report>>

\* main, lines 125-147: writeReport writes the file and main returns, the
\* process ending with code 0; or ensureDir or writeFile throws, and the
\* catch of main logs the error and calls process.exit(1).  The handlers
\* of lines 152-174, which read options.ignoreErrors, are not reached by
\* an exception raised inside main's try block.
WriteReport(outcomes) ==
  /\ pc = "named"
  /\ \E outcome \in outcomes :
       IF outcome = "written"
       THEN /\ written' = Append(written, [dir |-> config.outputPath,
                                           name |-> filename,
                                           content |-> reportContent])
            /\ thrown' = FALSE
            /\ Exit(0)
       ELSE /\ thrown' = TRUE
            /\ written' = written
            /\ Exit(1)
  /\ UNCHANGED <<argv, options, reportContent, filename, config, now, repoPaths,
                 repoIdx, startDate, endDate, repoInfo, log, logIdx, kept,
                 commits, commitIdx, st, answers, repoReports, returned, report>>

WriteOutcomes == {"written", "throws"}

\* the command lines of the whole-process runs
MainArgs ==
  {NoArgs,
   [NoArgs EXCEPT !.config = Str(Path_custom)],
   [NoArgs EXCEPT !.config = Str(Path_custom), !.days = Str(<<"0">>),
                  !.format = Str(Fmt_text), !.output = Str(Path_reports)],
   [NoArgs EXCEPT !.config = Str(Path_missing)],
   [NoArgs EXCEPT !.config = Str(Path_broken)],
   [NoArgs EXCEPT !.path = Str(Path_nowhere)],
   [NoArgs EXCEPT !.days = Str(<<"0">>), !.format = Str(Fmt_JSON)],
   [NoArgs EXCEPT !.days = Str(<<"0">>), !.format = Str(Fmt_json),
                  !.ignoreErrors = TRUE],
   [NoArgs EXCEPT !.days = Str(<<"1">>), !.format = Str(Fmt_Markdown),
                  !.noAnalysis = TRUE],
   [NoArgs EXCEPT !.days = Str(<<"0">>), !.format = Str(Fmt_html),
                  !.ignoreErrors = TRUE]}

InitMain ==
  /\ argv \in MainArgs
  /\ options = ProgramOpts(argv, DefaultConfig)
  /\ exitCode = Running
  /\ thrown = FALSE
  /\ reportContent = Null
  /\ filename = Null
  /\ written = <<>>
  /\ config = DefaultConfig
  /\ now \in InitClocks
  /\ pc = "configure"
  /\ repoPaths = <<>>
  /\ repoIdx = 1
  /\ startDate = 0
  /\ endDate = 0
  /\ RepoLocalsIdle
  /\ repoReports = <<>>
  /\ returned = <<>>
  /\ report = Null

NextMain ==
  \/ Tick
  \/ Configure
  \/ MainScan
  \/ GenerateFullReportStart
  \/ GetRepositoryInfo
  \/ ReadLog(RunLogs)
  \/ FilterCommit
  \/ GetCommitsReturn
  \/ AnalyzeRootCommit(RunTrees)
  \/ AnalyzeNonRootCommit(RunDiffs)
  \/ AnalyzeFinish
  \/ AnalyzeReturn
  \/ GenerateFullReportReturn
  \/ FormatReport
  \/ GenerateReportFilename
  \/ WriteReport(WriteOutcomes)

SpecMain == InitMain /\ [][NextMain]_vars

(***************************************************************************)
(* The whole process as it is scheduled: a sequential async function whose *)
(* awaited calls all return, so that the step the run is at is eventually  *)
(* taken.  The output directory can be written, and the run is short       *)
(* enough for the clock to stay at one reading.                            *)
(***************************************************************************)
InitRun ==
  /\ argv \in {a \in RunArgs : a.days = Str(<<"1">>) /\ a.config = Undefined}
  /\ options = ProgramOpts(argv, DefaultConfig)
  /\ exitCode = Running
  /\ thrown = FALSE
  /\ reportContent = Null
  /\ filename = Null
  /\ written = <<>>
  /\ config = DefaultConfig
  /\ now = MaxClock
  /\ pc = "configure"
  /\ repoPaths = <<>>
  /\ repoIdx = 1
  /\ startDate = 0
  /\ endDate = 0
  /\ RepoLocalsIdle
  /\ repoReports = <<>>
  /\ returned = <<>>
  /\ report = Null

NextRun ==
  \/ Configure
  \/ MainScan
  \/ GenerateFullReportStart
  \/ GetRepositoryInfo
  \/ ReadLog(RunLogs)
  \/ FilterCommit
  \/ GetCommitsReturn
  \/ AnalyzeRootCommit(RunTrees)
  \/ AnalyzeNonRootCommit(RunDiffs)
  \/ AnalyzeFinish
  \/ AnalyzeReturn
  \/ GenerateFullReportReturn
  \/ FormatReport
  \/ GenerateReportFilename
  \/ WriteReport({"written"})

SpecRun == InitRun /\ [][NextRun]_vars /\ WF_vars(NextRun)

(***************************************************************************)
(* One repository's history read against the clock: the run from the call  *)
(* of getCommitsInDateRange for a single repository, over every history of *)
(* up to MaxLog commits.                                                   *)
(***************************************************************************)
HistoryLogs == {ToLog(f) : f \in LogsOf(Dates, {Ann}, MaxLog)}

InitHistory ==
  /\ config \in {c \in Configs : c.ignoreFileTypes = DefaultIgnoreFileTypes}
  /\ MainIdle
  /\ now \in InitClocks
  /\ pc = "getCommits"
  /\ repoPaths = <<1>>
  /\ repoIdx = 1
  /\ startDate = getReportStartDate(now, config.reportDays)
  /\ endDate = getReportEndDate(now)
  /\ repoInfo = [name |-> 1, isEmpty |-> FALSE, error |-> FALSE]
  /\ log = <<>>
  /\ logIdx = 0
  /\ kept = <<>>
  /\ commits = <<>>
  /\ commitIdx = 0
  /\ st = NoSt
  /\ answers = <<>>
  /\ repoReports = <<>>
  /\ returned = <<>>
  /\ report = Null

NextHistory ==
  \/ Tick
  \/ ReadLog(HistoryLogs)
  \/ FilterCommit
  \/ GetCommitsReturn

SpecHistory == InitHistory /\ [][NextHistory]_vars

(***************************************************************************)
(* One repository's analysis: the run from the call of analyzeCodeChanges  *)
(* for a single repository, over every answer git can give per commit.     *)
(***************************************************************************)
\* the commits getCommitsInDateRange hands over: the whole history, or the
\* history without its oldest commits (whose author plays no part)
RepoCommits ==
  UNION {
    LET l == ToLog(f)
    IN {[log |-> l, commits |-> MapCommits(l, SubSeq(l, 1, n))] :
          n \in {m \in 1..Len(l) : /\ m <= MaxLog
                                    /\ \A i \in (m + 1)..Len(l) : f[i][2] = Ann}}
    : f \in LogsOf({Clock0}, Authors, MaxLog + 1)}

InitRepo ==
  /\ config \in {c \in Configs : c.includeCodeAnalysis /\ c.reportDays = 0}
  /\ MainIdle
  /\ now = Clock0
  /\ pc = "analyze"
  /\ repoPaths = <<1>>
  /\ repoIdx = 1
  /\ startDate = getReportStartDate(now, config.reportDays)
  /\ endDate = getReportEndDate(now)
  /\ repoInfo = [name |-> 1, isEmpty |-> FALSE, error |-> FALSE]
  /\ \E h \in RepoCommits : log = h.log /\ commits = h.commits
  /\ logIdx = 0
  /\ kept = <<>>
  /\ commitIdx = 1
  /\ st = [analysis |-> NewAnalysis(commits), allChangedFiles |-> <<>>]
  /\ answers = <<>>
  /\ repoReports = <<>>
  /\ returned = <<>>
  /\ report = Null

NextRepo ==
  \/ AnalyzeRootCommit(RichTrees)
  \/ AnalyzeNonRootCommit(RichDiffs)
  \/ AnalyzeFinish
  \/ AnalyzeReturn
  \/ GenerateFullReportReturn

SpecRepo == InitRepo /\ [][NextRepo]_vars

(***************************************************************************)
(* One repository whose history is any commit graph: merges, several       *)
(* parentless commits, and logs that list a commit before one of its       *)
(* children.  The run goes from the call of getCommitsInDateRange to the   *)
(* end of generateRepoReport.                                              *)
(***************************************************************************)
GraphLogs ==
  UNION {{GraphLog(f, g) : f \in [1..n -> {0, MaxClock} \X {Ann}], g \in GraphsOf(n)}
         : n \in 1..(MaxLog + 1)}

InitGraph ==
  /\ config \in {c \in Configs : /\ c.includeCodeAnalysis
                                 /\ c.reportDays = 0
                                 /\ c.ignoreFileTypes = DefaultIgnoreFileTypes}
  /\ MainIdle
  /\ now = MaxClock
  /\ pc = "getCommits"
  /\ repoPaths = <<1>>
  /\ repoIdx = 1
  /\ startDate = getReportStartDate(now, config.reportDays)
  /\ endDate = getReportEndDate(now)
  /\ repoInfo = [name |-> 1, isEmpty |-> FALSE, error |-> FALSE]
  /\ log = <<>>
  /\ logIdx = 0
  /\ kept = <<>>
  /\ commits = <<>>
  /\ commitIdx = 0
  /\ st = NoSt
  /\ answers = <<>>
  /\ repoReports = <<>>
  /\ returned = <<>>
  /\ report = Null

NextGraph ==
  \/ ReadLog(GraphLogs)
  \/ FilterCommit
  \/ GetCommitsReturn
  \/ AnalyzeRootCommit(RunTrees)
  \/ AnalyzeNonRootCommit(RunDiffs)
  \/ AnalyzeFinish
  \/ AnalyzeReturn

SpecGraph == InitGraph /\ [][NextGraph]_vars

(***************************************************************************)
(* Properties                                                              *)
(***************************************************************************)
RECURSIVE SetSum(_, _)
SetSum(S, f) ==
  IF S = {} THEN 0
  ELSE LET x == CHOOSE y \in S : TRUE
       IN f[x] + SetSum(S \ {x}, f)

\* the value of a key of a map, 0 when the key is absent
Val(o, k) == IF ObjHas(o, k) THEN ObjGet(o, k) ELSE 0

AuthorVal(o, k) ==
  IF ObjHas(o, k) THEN ObjGet(o, k)
  ELSE [commits |-> 0, additions |-> 0, deletions |-> 0]

\* the key -> value content of a map, whatever the order of its keys
ObjContent(o) == {<<o[i].k, o[i].v>> : i \in 1..Len(o)}

Returned == 1..Len(returned)

WithCommits == {i \in Returned : Len(returned[i].commits) > 0}

Analysed == {i \in Returned : returned[i].analysis # Null}

\* summary is the sum of the commit counts of the returned reports in
\* counted and of the analyses of the returned reports in analysed
SummaryIsSumOf(summary, counted, analysed) ==
  LET A(i) == returned[i].analysis
      types == UNION {ObjKeys(A(i).fileTypes) : i \in analysed}
      authors == UNION {ObjKeys(A(i).commitsByAuthor) : i \in analysed}
  IN /\ summary.totalCommits =
          SetSum(counted, [i \in counted |-> Len(returned[i].commits)])
     /\ summary.totalFilesChanged =
          SetSum(analysed, [i \in analysed |-> A(i).totalFilesChanged])
     /\ summary.totalAdditions =
          SetSum(analysed, [i \in analysed |-> A(i).lineChanges.additions])
     /\ summary.totalDeletions =
          SetSum(analysed, [i \in analysed |-> A(i).lineChanges.deletions])
     /\ summary.fileChanges.added =
          SetSum(analysed, [i \in analysed |-> A(i).fileChanges.added])
     /\ summary.fileChanges.modified =
          SetSum(analysed, [i \in analysed |-> A(i).fileChanges.modified])
     /\ summary.fileChanges.deleted =
          SetSum(analysed, [i \in analysed |-> A(i).fileChanges.deleted])
     /\ summary.fileChanges.renamed =
          SetSum(analysed, [i \in analysed |-> A(i).fileChanges.renamed])
     /\ ObjKeys(summary.fileTypes) = types
     /\ \A t \in types :
          Val(summary.fileTypes, t) =
            SetSum(analysed, [i \in analysed |-> Val(A(i).fileTypes, t)])
     /\ ObjKeys(summary.commitsByAuthor) = authors
     /\ \A a \in authors :
          /\ AuthorVal(summary.commitsByAuthor, a).commits =
               SetSum(analysed,
                      [i \in analysed |-> AuthorVal(A(i).commitsByAuthor, a).commits])
          /\ AuthorVal(summary.commitsByAuthor, a).additions =
               SetSum(analysed,
                      [i \in analysed |->
                         AuthorVal(A(i).commitsByAuthor, a).additions])
          /\ AuthorVal(summary.commitsByAuthor, a).deletions =
               SetSum(analysed,
                      [i \in analysed |->
                         AuthorVal(A(i).commitsByAuthor, a).deletions])

InRepositories(name) ==
  \E j \in 1..Len(report.repositories) : report.repositories[j].name = name

\* C1: a commit is kept by the filter of getCommitsInDateRange iff its
\* timestamp t satisfies s <= t <= e, where s and e are the start and end
\* instants isDateInReportRange computes for that call; a commit dated
\* exactly s or exactly e is kept.
C1_InclusiveWindow ==
  [][(pc = "filter" /\ logIdx' = logIdx + 1) =>
       LET t == log[logIdx].date
           s == getReportStartDate(now, config.reportDays)
           e == getReportEndDate(now')
       IN /\ (s <= t /\ t <= e) => kept' = Append(kept, log[logIdx])
          /\ ~(s <= t /\ t <= e) => kept' = kept]_vars

\* the filter has kept a commit dated exactly at the start of the window and
\* one dated exactly at its end
C1_Witness ==
  /\ pc = "filter"
  /\ logIdx > Len(log)
  /\ \E i \in 1..Len(kept) :
       kept[i].date = getReportStartDate(now, config.reportDays)
  /\ \E i \in 1..Len(kept) : kept[i].date = getReportEndDate(now)

\* C2: in the report generateFullReport returns, a repository with no
\* in-window commit (empty, unreadable or without recent commits) has a null
\* analysis, is not among the repositories, adds nothing to any total of
\* the summary (the totals are the sums over the repositories with
\* commits), and is counted in totalRepos.
C2_ZeroCommitRepos ==
  pc = "done" =>
    /\ Len(returned) = Len(repoPaths)
    /\ report.totalRepos = Len(repoPaths)
    /\ \A i \in Returned \ WithCommits :
         /\ returned[i].analysis = Null
         /\ ~InRepositories(returned[i].name)
    /\ SummaryIsSumOf(report.summary, WithCommits, WithCommits \cap Analysed)

\* a finished run over a repository whose HEAD does not resolve and a
\* repository with analysed commits
C2_Witness ==
  /\ pc = "done"
  /\ \E i \in Returned : returned[i].isEmpty /\ ~returned[i].error
  /\ \E i \in Returned : returned[i].analysis # Null
  /\ report.summary.totalCommits > 0

\* C3 as stated: a repository with a null analysis adds to no total of the
\* summary, totalCommits included, and is counted in totalRepos.
C3_NullAnalysisAddsNothing ==
  pc = "done" =>
    /\ report.totalRepos = Len(repoPaths)
    /\ SummaryIsSumOf(report.summary, Analysed, Analysed)

\* C3 as amended: a repository with a null analysis adds nothing to
\* totalFilesChanged, totalAdditions, totalDeletions, fileTypes, fileChanges
\* and commitsByAuthor and is counted in totalRepos; totalCommits is the
\* number of in-window commits of all repositories, analysed or not.
C3_NullAnalysisKeepsCommits ==
  pc = "done" =>
    /\ report.totalRepos = Len(repoPaths)
    /\ Len(returned) = Len(repoPaths)
    /\ SummaryIsSumOf(report.summary, Returned, Analysed)

\* a finished run with the analysis switched off over a repository that has
\* in-window commits
C3_Witness ==
  /\ pc = "done"
  /\ ~config.includeCodeAnalysis
  /\ \E i \in WithCommits : returned[i].analysis = Null

Perms(n) == {f \in [1..n -> 1..n] : \A i, j \in 1..n : f[i] = f[j] => i = j}

Permute(seq, f) == [i \in 1..Len(seq) |-> seq[f[i]]]

SameSummary(a, b) ==
  /\ a.totalCommits = b.totalCommits
  /\ a.totalFilesChanged = b.totalFilesChanged
  /\ a.totalAdditions = b.totalAdditions
  /\ a.totalDeletions = b.totalDeletions
  /\ a.fileChanges = b.fileChanges
  /\ ObjContent(a.fileTypes) = ObjContent(b.fileTypes)
  /\ ObjContent(a.commitsByAuthor) = ObjContent(b.commitsByAuthor)

\* C4: generateSummaryStats gives the same totals, the same fileChanges and
\* the same key -> value content of fileTypes and commitsByAuthor for every
\* permutation of the reports collected so far.
C4_OrderIndependent ==
  \A f \in Perms(Len(repoReports)) :
    SameSummary(generateSummaryStats(repoReports),
                generateSummaryStats(Permute(repoReports, f)))

\* two analysed reports whose summary lists its keys in another order when
\* the reports are swapped
C4_Witness ==
  /\ Len(repoReports) >= 2
  /\ \A i \in 1..Len(repoReports) : repoReports[i].analysis # Null
  /\ \E f \in Perms(Len(repoReports)) :
       generateSummaryStats(Permute(repoReports, f))
         # generateSummaryStats(repoReports)

\* the commits of the loop whose git answers are in, and what they say
IsRootAnswer(g) == "tree" \in DOMAIN g

\* every query of the iteration succeeded
Classified(g) ==
  IF IsRootAnswer(g) THEN g.lsTree.ok /\ g.show.ok
  ELSE g.stats1.ok /\ g.diff.ok /\ g.stats2.ok

\* the iteration got as far as parsing the file list
Parsed(g) ==
  IF IsRootAnswer(g) THEN g.lsTree.ok /\ g.show.ok
  ELSE g.stats1.ok /\ g.diff.ok

\* the paths a commit touched; a rename or copy is the pair old TAB new
TouchedPaths(g) ==
  IF IsRootAnswer(g) THEN {g.tree[i] : i \in 1..Len(g.tree)}
  ELSE {join(g.changes[i].paths, TAB) : i \in 1..Len(g.changes)}

OccurrencesOf(p) ==
  {i \in 1..Len(st.allChangedFiles) : st.allChangedFiles[i].path = p}

FirstSeen(p) == CHOOSE i \in OccurrencesOf(p) : \A j \in OccurrencesOf(p) : i <= j

RecordedPaths == {st.allChangedFiles[i].path : i \in 1..Len(st.allChangedFiles)}

\* a before b in the order of the claim: more changes first, and among
\* equal counts the path seen first
RanksBefore(a, b) ==
  \/ Cardinality(OccurrencesOf(a)) > Cardinality(OccurrencesOf(b))
  \/ /\ Cardinality(OccurrencesOf(a)) = Cardinality(OccurrencesOf(b))
     /\ FirstSeen(a) < FirstSeen(b)

\* C5: mostChangedFiles has at most 5 entries, each a changed path with its
\* count, in non-increasing order of count, holding the paths with the
\* highest counts, and among equal counts the path that appeared first in
\* the fold comes first.
C5_MostChangedFiles ==
  pc = "analyzed" =>
    LET top == st.analysis.mostChangedFiles
        inTop == {top[i].path : i \in 1..Len(top)}
    IN /\ Len(top) <= 5
       /\ Len(top) = IF Cardinality(RecordedPaths) < 5
                     THEN Cardinality(RecordedPaths) ELSE 5
       /\ Cardinality(inTop) = Len(top)
       /\ \A i \in 1..Len(top) :
            /\ top[i].path \in RecordedPaths
            /\ top[i].count = Cardinality(OccurrencesOf(top[i].path))
       /\ \A i, j \in 1..Len(top) :
            i < j => RanksBefore(top[i].path, top[j].path)
       /\ \A p \in RecordedPaths \ inTop :
            \A i \in 1..Len(top) : RanksBefore(top[i].path, p)

\* C6: totalFilesChanged is the number of distinct paths touched by the
\* successfully classified commits; it is at most the number of FileChange
\* records, and equal to it iff every changed path is touched by exactly
\* one commit.
C6_DistinctPaths ==
  pc = "analyzed" =>
    LET done == {k \in 1..Len(answers) : Classified(answers[k])}
        touched == UNION {TouchedPaths(answers[k]) : k \in done}
        total == st.analysis.totalFilesChanged
    IN /\ total = Cardinality(touched)
       /\ total <= Len(st.allChangedFiles)
       /\ (total = Len(st.allChangedFiles)) <=>
            \A p \in touched :
              Cardinality({k \in done : p \in TouchedPaths(answers[k])}) = 1

FoldedExtension(i) == toLowerCase(extname(st.allChangedFiles[i].path))

\* C7: a file whose extension is in the ignore set, letter case aside, or
\* whose extension is empty adds nothing to fileTypes; any other file adds
\* 1 to the entry of its lower-cased extension.
C7_IgnoredExtensions ==
  pc \in {"analyze", "analyzed"} =>
    LET ignored == {toLowerCase(config.ignoreFileTypes[i]) :
                      i \in 1..Len(config.ignoreFileTypes)}
        seen == {FoldedExtension(i) : i \in 1..Len(st.allChangedFiles)}
        counted == {e \in seen : e # <<>> /\ e \notin ignored}
    IN /\ ObjKeys(st.analysis.fileTypes) = counted
       /\ \A e \in counted :
            Val(st.analysis.fileTypes, e) =
              Cardinality({i \in 1..Len(st.allChangedFiles) :
                             FoldedExtension(i) = e})

\* C8: the change-type counters add up to the number of FileChange records
\* folded, whatever the statuses.
C8_ChangeTypeTotals ==
  pc \in {"analyze", "analyzed"} =>
    st.analysis.fileChanges.added + st.analysis.fileChanges.modified
      + st.analysis.fileChanges.deleted + st.analysis.fileChanges.renamed
    = Len(st.allChangedFiles)

\* C9: a root commit yields one Added FileChange per file of its tree, with
\* that file's path; a repository whose only in-window commit is a root
\* commit holding a.go and b.md, .md being ignored, gets
\* fileTypes = {'.go': 1}, added = 2 and totalFilesChanged = 2.
C9_RootCommit ==
  (/\ pc = "analyzed"
   /\ Len(commits) = 1
   /\ commits[1].isFirstCommit
   /\ Classified(answers[1])) =>
    LET tree == answers[1].tree
        all == st.allChangedFiles
    IN /\ Len(all) = Len(tree)
       /\ \A i \in 1..Len(all) : all[i].path = tree[i] /\ all[i].type = "Added"
       /\ (tree = <<P_a_go, P_b_md>>
           /\ config.ignoreFileTypes = DefaultIgnoreFileTypes) =>
            /\ ObjContent(st.analysis.fileTypes) = {<< <<".", "g", "o">>, 1 >>}
            /\ st.analysis.fileChanges.added = 2
            /\ st.analysis.totalFilesChanged = 2

\* the part of a line after its first TAB-separated field
AfterFirstField(line) ==
  LET tabs == {i \in 1..Len(line) : line[i] = TAB}
  IN IF tabs = {} THEN <<>>
     ELSE SubSeq(line, (CHOOSE i \in tabs : \A j \in tabs : i <= j) + 1, Len(line))

RecordsOf(hash) ==
  LET OfCommit(r) == r.commit = hash
  IN SelectSeq(st.allChangedFiles, OfCommit)

\* C10: in both branches every non-empty line of git's output gives one
\* FileChange whose path is all of the line after its first field, and that
\* path is not empty.
C10_WholePath ==
  pc \in {"analyze", "analyzed"} =>
    \A k \in 1..Len(answers) :
      Parsed(answers[k]) =>
        LET out == IF IsRootAnswer(answers[k]) THEN answers[k].lsTree.out
                   ELSE answers[k].diff.out
            lines == NonBlank(split(out, NL))
            recs == RecordsOf(commits[k].hash)
        IN /\ Len(recs) = Len(lines)
           /\ \A i \in 1..Len(recs) :
                /\ recs[i].path = AfterFirstField(lines[i])
                /\ recs[i].path # <<>>

\* the state of the analysis after the first k answered commits when the
\* commits with a failed query are left out of the loop
RECURSIVE SkippingFailed(_)
SkippingFailed(k) ==
  IF k = 0 THEN [analysis |-> NewAnalysis(commits), allChangedFiles |-> <<>>]
  ELSE LET prev == SkippingFailed(k - 1)
           g == answers[k]
       IN IF ~Classified(g) THEN prev
          ELSE IF IsRootAnswer(g)
               THEN RootCommitBody(prev, config.ignoreFileTypes, commits[k], g)
               ELSE NonRootCommitBody(prev, config.ignoreFileTypes, commits[k], g)

\* C11: a commit one of whose git queries failed contributes nothing:
\* lineChanges, fileTypes, fileChanges, the changed-file list and the
\* additions and deletions of every author are what they would be had the
\* loop skipped that commit, and the loop has gone on to the next commit.
C11_FailedCommitAddsNothing ==
  pc \in {"analyze", "analyzed"} =>
    LET skipped == SkippingFailed(Len(answers))
    IN /\ commitIdx = Len(answers) + 1
       /\ st.analysis.lineChanges = skipped.analysis.lineChanges
       /\ ObjContent(st.analysis.fileTypes) = ObjContent(skipped.analysis.fileTypes)
       /\ st.analysis.fileChanges = skipped.analysis.fileChanges
       /\ st.allChangedFiles = skipped.allChangedFiles
       /\ \A a \in Authors :
            /\ AuthorVal(st.analysis.commitsByAuthor, a).additions =
                 AuthorVal(skipped.analysis.commitsByAuthor, a).additions
            /\ AuthorVal(st.analysis.commitsByAuthor, a).deletions =
                 AuthorVal(skipped.analysis.commitsByAuthor, a).deletions

\* the commits getCommitsInDateRange hands to generateRepoReport in the
\* step that ends the filter
ReturnedCommits ==
  IF pc' = "analyze" THEN commits' ELSE returned'[Len(returned')].commits

\* C12: getCommitsInDateRange returns the kept commits in log order, and a
\* returned commit has isFirstCommit iff it is the last entry of the whole
\* log; when that last entry is outside the window no returned commit is
\* flagged.
C12_LastOfFullLog ==
  [][(pc = "filter" /\ logIdx > Len(log) /\ pc' # "filter") =>
       LET cs == ReturnedCommits
           oldest == log[Len(log)].hash
       IN /\ Len(cs) = Len(kept)
          /\ \A i \in 1..Len(cs) :
               /\ cs[i].hash = kept[i].hash
               /\ cs[i].isFirstCommit <=> (cs[i].hash = oldest)
          /\ (\A i \in 1..Len(kept) : kept[i].hash # oldest) =>
               \A i \in 1..Len(cs) : ~cs[i].isFirstCommit]_vars

\* commits were returned from a history whose oldest commit is outside the
\* window, and none of them is flagged
C12_Witness ==
  /\ pc = "analyze"
  /\ Len(log) > Len(commits)
  /\ \A i \in 1..Len(commits) : commits[i].hash # log[Len(log)].hash
  /\ \A i \in 1..Len(commits) : ~commits[i].isFirstCommit

\* C13: whatever the commit graph, a commit handed to analyzeCodeChanges is
\* flagged isFirstCommit iff it has no parent, so the commits of the
\* non-root branch have a parent to diff against and the parentless commits
\* are classified by the root branch.
C13_FlaggedIffParentless ==
  pc \in {"analyze", "analyzed"} =>
    \A i \in 1..Len(commits) :
      commits[i].isFirstCommit <=> ~HasParent(log, commits[i].hash)

\* C14: an exception raised inside main ends the process with a non-zero
\* code unless --ignore-errors is given; with --ignore-errors that
\* exception does not end the process.
C14_IgnoreErrors ==
  thrown =>
    IF options.ignoreErrors THEN exitCode \in {Running, 0}
    ELSE exitCode \notin {Running, 0}

\* the run has ended having written one report that covers every
\* repository, with an empty summary when no repository yielded a commit
OneReportWritten ==
  /\ pc = "exited"
  /\ exitCode = 0
  /\ Len(written) = 1
  /\ Len(returned) = Len(repoPaths)
  /\ LET data == written[1].content.data
     IN /\ data = report
        /\ data.totalRepos = Len(repoPaths)
        /\ data.reposWithCommits = Cardinality(WithCommits)
        /\ (WithCommits = {}) =>
             /\ data.summary = NewSummary
             /\ data.repositories = <<>>

UsesFileOrOption(given, optionValue, file, key, used) ==
  IF given # Undefined THEN used = optionValue
  ELSE (key \in DOMAIN file) => used = file[key]

\* C16: when a configuration file is loaded with --config, reportDays,
\* outputFormat and outputPath of the run are the file's values unless
\* --days, --format or --output is given, and a given option overrides the
\* file.
C16_ConfigFileUsed ==
  (/\ pc \in {"main", "start", "done", "formatted", "named"}
   /\ argv.config # Undefined) =>
    LET file == ConfigFileAt(argv.config.str).default
    IN /\ UsesFileOrOption(argv.days, parseInt(argv.days), file, "reportDays",
                           config.reportDays)
       /\ UsesFileOrOption(argv.format, argv.format.str, file, "outputFormat",
                           config.outputFormat)
       /\ UsesFileOrOption(argv.output, argv.output.str, file, "outputPath",
                           config.outputPath)

\* the answered commits that took the root branch
RootAnswers == {k \in 1..Len(answers) : IsRootAnswer(answers[k])}

\* the lines git reports for the k-th commit: the stat summary of a root
\* commit, the diff summary of any other
LinesOf(k) ==
  IF IsRootAnswer(answers[k])
  THEN [additions |-> StatInsertions(answers[k].show),
        deletions |-> StatDeletions(answers[k].show)]
  ELSE [additions |-> answers[k].stats1.insertions,
        deletions |-> answers[k].stats1.deletions]

AuthorsAdditions ==
  SetSum(Authors, [a \in Authors |->
                     AuthorVal(st.analysis.commitsByAuthor, a).additions])

AuthorsDeletions ==
  SetSum(Authors, [a \in Authors |->
                     AuthorVal(st.analysis.commitsByAuthor, a).deletions])

InReportWindow(c) == startDate <= c.date /\ c.date <= endDate

\* C18: one window serves the whole run, however the clock advances: the
\* commits the filter has kept are those dated inside the window of
\* generateFullReport, whose bounds are the dates stored in the report and
\* the days in the file name.
C18_SingleWindow ==
  /\ pc = "filter" => kept = SelectSeq(SubSeq(log, 1, logIdx - 1), InReportWindow)
  /\ report # Null =>
       /\ report.startDate = formatDate(startDate)
       /\ report.endDate = formatDate(endDate)
  /\ filename # Null =>
       /\ filename.start = formatDay(startDate)
       /\ filename.end = formatDay(endDate)

\* C19: in the analysis of a repository the commits of the authors add up
\* to totalCommits, the number of in-window commits, also when commits
\* failed classification.
C19_AuthorCommitsTotal ==
  pc = "analyzed" =>
    LET byAuthor == st.analysis.commitsByAuthor
        authors == ObjKeys(byAuthor)
    IN /\ st.analysis.totalCommits = Len(commits)
       /\ SetSum(authors, [a \in authors |-> ObjGet(byAuthor, a).commits])
            = st.analysis.totalCommits

\* the extension that goes with a renderer
ExtensionOf(renderer) ==
  IF renderer = "markdown" THEN Ext_md
  ELSE IF renderer = "json" THEN Fmt_json
  ELSE Fmt_text

\* C20: the extension of the report's file name is that of the renderer
\* that produced the content: md for Markdown, json for JSON, text for
\* plain text, whatever the letter case of outputFormat and for unknown
\* formats.
C20_ExtensionMatchesRenderer ==
  (filename # Null /\ reportContent # Null) =>
    filename.ext = ExtensionOf(reportContent.renderer)

====
